---- MODULE Spec2Model ----
(***************************************************************************)
(* A model of the prefix-indexed dictionary of src/src/trie.py: the Trie   *)
(* of TrieNodes, its operations insert, contains, remove, complete, stats  *)
(* and items, and the counters _words and _nodes.                          *)
(*                                                                         *)
(* A TrieNode is identified by the symbol sequence that leads to it from   *)
(* the root; `nodes` maps each node the heap holds to its three slots.     *)
(* The children dict is kept as the sequence of its keys in insertion      *)
(* order (a Python dict iterates in insertion order); the child under key  *)
(* ch of the node at path p is the node at Append(p, ch).  Symbols are     *)
(* integers compared as Python compares characters; a weight is an integer *)
(* standing for a finite float.                                            *)
(*                                                                         *)
(* Each operation is an operator on the trie (InsertOp, RemoveOp,          *)
(* ContainsOp, CompleteOp, StatsOp, ItemsOp) translated from its code; the *)
(* operations that assign to the trie are the actions.  Spec is every      *)
(* sequence of insert and remove calls on a fresh trie with the latest     *)
(* call logged; SpecTrie is the same calls with no log, for the properties *)
(* of the tries alone; SpecBuild is the builds of a trie from a set of     *)
(* pairs, in every order; SpecQuery is the insert and remove calls with    *)
(* the queries called in between.                                          *)
(*                                                                         *)
(* The command interpreter of src/src/app.py owns a trie and reads lines;  *)
(* ReadLine is one pass of its loop and SpecApp every sequence of lines.   *)
(* The persistence layer it calls (io_utils) is outside the sources and is *)
(* taken from the specification: a load answers with the records of a file *)
(* or fails, a save is done or fails.                                      *)
(***************************************************************************)
EXTENDS Integers, Sequences, FiniteSets, TLC

\* ---------------------------------------------------------------- bounds
\* the most words the trie stores at once: insert of a further word waits
MaxStored == 3

\* the inputs: two symbols, 1 < 2 as 'a' < 'b'; every word of at most two
\* symbols, the empty word among them; two weights, so that words tie and
\* differ, one of them the 0.0 a removed word's node is reset to
Symbols == {1, 2}

Words == UNION {[1..n -> Symbols] : n \in 0..2}

Weights == {0, 1}

\* the k of complete: none, fewer than, as many as and more than the words stored
Ks == 0..(MaxStored + 1)

\* ---------------------------------------------------------------- state
\* nodes, _words, _nodes: the trie (the nodes reachable from self.root, self._words,
\* self._nodes).  last: the latest call, its arguments, whether contains(word)
\* held when it was made, and the value it returned.  net: the inserts that
\* added a word not stored at that moment, less the removes that returned true.
\* pairs: the (word, weight) pairs a build has inserted so far.
\* parts, disk, out, running: the command interpreter of src/src/app.py, which
\* owns a trie: the words of the line it has just read, what the persistence
\* layer answered in that line, what the line printed, and whether the loop
\* is still reading.
VARIABLES nodes, _words, _nodes, last, net, pairs, parts, disk, out, running

vars == <<nodes, _words, _nodes, last, net, pairs, parts, disk, out, running>>

\* the state of the interpreter around the trie
app == <<parts, disk, out, running>>

\* ---------------------------------------------------------------- helpers
Range(s) == {s[i] : i \in 1..Len(s)}

IsPrefix(p, w) == Len(p) <= Len(w) /\ SubSeq(w, 1, Len(p)) = p

Min(a, b) == IF a <= b THEN a ELSE b

Max(a, b) == IF a >= b THEN a ELSE b

\* c in node.children
HasKey(node, c) == \E j \in 1..Len(node.children) : node.children[j] = c

\* TrieNode.__init__
TrieNode == [children |-> <<>>, is_word |-> FALSE, freq |-> 0]

\* Trie.__init__
EmptyTrie == [nodes |-> (<<>> :> TrieNode), words |-> 0, ncount |-> 1]

\* del node.children[ch]: the key leaves the dict, the others keep their order
RECURSIVE DelKey(_, _)
DelKey(s, ch) ==
    IF s = <<>> THEN <<>>
    ELSE IF Head(s) = ch THEN DelKey(Tail(s), ch)
         ELSE <<Head(s)>> \o DelKey(Tail(s), ch)

\* the heap once the edge p -> Append(p, ch) is deleted: the node under the
\* edge, and whatever hangs below it, is no longer referenced and is freed
DropEdge(ns, p, ch) ==
    LET kept == {q \in DOMAIN ns : ~IsPrefix(Append(p, ch), q)}
    IN  [q \in kept |-> IF q = p THEN [ns[q] EXCEPT !.children = DelKey(@, ch)] ELSE ns[q]]

\* node.children[c] = TrieNode()
AddChild(ns, p, c) ==
    [q \in DOMAIN ns \cup {Append(p, c)} |->
        IF q = Append(p, c) THEN TrieNode
        ELSE IF q = p THEN [ns[q] EXCEPT !.children = Append(@, c)]
        ELSE ns[q]]

\* ---------------------------------------------------------------- insert
\* self._nodes += 1
NodesAfterCreate(n) == n + 1

\* the loop of insert from symbol i on, standing at the node SubSeq(word, 1, i - 1)
RECURSIVE InsertWalk(_, _, _)
InsertWalk(st, word, i) ==
    IF i > Len(word) THEN st
    ELSE LET p == SubSeq(word, 1, i - 1)
             c == word[i]
         IN  IF ~HasKey(st.nodes[p], c)
             THEN InsertWalk([nodes |-> AddChild(st.nodes, p, c),
                              ncount |-> NodesAfterCreate(st.ncount)], word, i + 1)
             ELSE InsertWalk(st, word, i + 1)

\* an insert that counts every call, a stored word's too
WordsAfterInsertAlways(n, node) == n + 1

\* if not node.is_word: self._words += 1
WordsAfterInsert(n, node) == IF ~node.is_word THEN n + 1 ELSE n

\* an insert that sets the weight of a new word only
MarkWordKeepsWeight(node, freq) ==
    IF node.is_word THEN node ELSE [node EXCEPT !.is_word = TRUE, !.freq = freq]

\* node.is_word = True; node.freq = freq
MarkWord(node, freq) == [node EXCEPT !.is_word = TRUE, !.freq = freq]

\* Trie.insert as a function of the trie [nodes, words, ncount]
InsertOp(t, word, freq) ==
    LET w == InsertWalk([nodes |-> t.nodes, ncount |-> t.ncount], word, 1)
    IN  [nodes |-> [w.nodes EXCEPT ![word] = MarkWord(@, freq)],
         words |-> WordsAfterInsert(t.words, w.nodes[word]),
         ncount |-> w.ncount]

\* ---------------------------------------------------------------- contains
RECURSIVE ContainsWalk(_, _, _)
ContainsWalk(ns, word, i) ==
    IF i > Len(word) THEN ns[word].is_word
    ELSE IF ~HasKey(ns[SubSeq(word, 1, i - 1)], word[i]) THEN FALSE
         ELSE ContainsWalk(ns, word, i + 1)

\* Trie.contains
ContainsOp(ns, word) == ContainsWalk(ns, word, 1)

\* ---------------------------------------------------------------- remove
\* if not node.is_word: return False, with the test left out
EndIsWordUnchecked(node) == TRUE

\* if not node.is_word: return False
EndIsWord(node) == node.is_word

\* a remove that resets the weight and leaves the terminal flag set
ClearWordKeepsFlag(node) == [node EXCEPT !.freq = 0]

\* node.is_word = False; node.freq = 0.0
ClearWord(node) == [node EXCEPT !.is_word = FALSE, !.freq = 0]

\* a remove that clears the word and prunes nothing (return False)
EndIsLeafNever(node) == FALSE

\* return len(node.children) == 0, of the node the word ends at
EndIsLeaf(node) == Len(node.children) = 0

\* a remove that prunes every childless node above the word, terminal or not
NowPrunableIgnoresWord(node) == node.children = <<>>

\* a remove that deletes the leaf and does not report its parent upward
NowPrunableNever(node) == FALSE

\* return not node.is_word and not node.children, once the edge below is deleted
NowPrunable(node) == ~node.is_word /\ node.children = <<>>

\* a remove that deletes the edge and leaves the counter as it was
NodesAfterDeleteSkipped(n) == n

\* self._nodes -= 1
NodesAfterDelete(n) == n - 1

\* _remove(node, i) with node the node at path p, Len(p) = i; the result is the
\* trie and the flag `removed` after the call, and the value the call returns
RECURSIVE RemoveRec(_, _, _)
RemoveRec(st, word, p) ==
    IF Len(p) = Len(word)
    THEN IF ~EndIsWord(st.nodes[p])
         THEN [st |-> st, del |-> FALSE]
         ELSE [st |-> [nodes |-> [st.nodes EXCEPT ![p] = ClearWord(@)],
                       words |-> st.words - 1,
                       ncount |-> st.ncount,
                       removed |-> TRUE],
               del |-> EndIsLeaf(st.nodes[p])]
    ELSE LET ch == word[Len(p) + 1]
         IN  IF ~HasKey(st.nodes[p], ch)
             THEN [st |-> st, del |-> FALSE]
             ELSE LET r == RemoveRec(st, word, Append(p, ch))
                  IN  IF r.del
                      THEN LET ns == DropEdge(r.st.nodes, p, ch)
                           IN  [st |-> [r.st EXCEPT !.nodes = ns,
                                                    !.ncount = NodesAfterDelete(@)],
                                del |-> NowPrunable(ns[p])]
                      ELSE [st |-> r.st, del |-> FALSE]

\* a remove that acts on the value _remove(self.root, 0) returns: the root
\* reported childless and non-terminal is taken off the count as well
RemoveOpDeletesRoot(t, word) ==
    LET r == RemoveRec([nodes |-> t.nodes, words |-> t.words, ncount |-> t.ncount,
                        removed |-> FALSE], word, <<>>)
    IN  [nodes |-> r.st.nodes, words |-> r.st.words,
         ncount |-> IF r.del THEN NodesAfterDelete(r.st.ncount) ELSE r.st.ncount,
         ret |-> r.st.removed]

\* Trie.remove as a function of the trie: the trie after it and the value returned;
\* the value _remove(self.root, 0) returns is dropped, so the root stays
RemoveOp(t, word) ==
    LET r == RemoveRec([nodes |-> t.nodes, words |-> t.words, ncount |-> t.ncount,
                        removed |-> FALSE], word, <<>>)
    IN  [nodes |-> r.st.nodes, words |-> r.st.words, ncount |-> r.st.ncount,
         ret |-> r.st.removed]

\* ---------------------------------------------------------------- complete
\* the loop of complete over the prefix: whether every symbol has its edge
RECURSIVE HasPath(_, _, _)
HasPath(ns, prefix, i) ==
    IF i > Len(prefix) THEN TRUE
    ELSE IF ~HasKey(ns[SubSeq(prefix, 1, i - 1)], prefix[i]) THEN FALSE
         ELSE HasPath(ns, prefix, i + 1)

\* dfs(n, path) of complete: the entries (-n.freq, path) appended to heap, the
\* node first and then its children from the i-th key on, in the dict's order
RECURSIVE CollectDfs(_, _)
RECURSIVE CollectKids(_, _, _)
CollectDfs(ns, p) ==
    (IF ns[p].is_word THEN <<<<0 - ns[p].freq, p>>>> ELSE <<>>) \o CollectKids(ns, p, 1)

CollectKids(ns, p, i) ==
    IF i > Len(ns[p].children) THEN <<>>
    ELSE CollectDfs(ns, Append(p, ns[p].children[i])) \o CollectKids(ns, p, i + 1)

\* str < str: the first symbol that differs decides, a proper prefix is smaller
LexLess(a, b) ==
    \E i \in 1..(Min(Len(a), Len(b)) + 1) :
        /\ SubSeq(a, 1, i - 1) = SubSeq(b, 1, i - 1)
        /\ \/ i > Len(a) /\ i <= Len(b)
           \/ i <= Len(a) /\ i <= Len(b) /\ a[i] < b[i]

\* a comparison that looks at the weight alone and leaves ties as dfs met them
EntryLessByWeightOnly(x, y) == x[1] < y[1]

\* tuple < tuple, of two entries (-freq, path)
EntryLess(x, y) == x[1] < y[1] \/ (x[1] = y[1] /\ LexLess(x[2], y[2]))

\* the place of entry x in the sorted list s: after the entries not greater
RECURSIVE InsertSorted(_, _)
InsertSorted(s, x) ==
    IF s = <<>> THEN <<x>>
    ELSE IF EntryLess(x, Head(s)) THEN <<x>> \o s
         ELSE <<Head(s)>> \o InsertSorted(Tail(s), x)

RECURSIVE SortFrom(_, _, _)
SortFrom(done, heap, i) ==
    IF i > Len(heap) THEN done ELSE SortFrom(InsertSorted(done, heap[i]), heap, i + 1)

\* a complete that returns the entries in the order dfs met them
SortEntriesSkipped(heap) == heap

\* heap.sort(): ascending and stable
SortEntries(heap) == SortFrom(<<>>, heap, 1)

\* heap[:k]: the first k entries, and for k < 0 all but the last -k
SliceTo(s, k) ==
    IF k >= 0 THEN SubSeq(s, 1, Min(k, Len(s))) ELSE SubSeq(s, 1, Max(Len(s) + k, 0))

\* the longest prefix of the first i symbols of prefix that has its path
RECURSIVE DeepestOnPath(_, _, _)
DeepestOnPath(ns, prefix, i) ==
    IF i = 0 \/ HasPath(ns, SubSeq(prefix, 1, i), 1) THEN SubSeq(prefix, 1, i)
    ELSE DeepestOnPath(ns, prefix, i - 1)

\* a complete whose prefix walk stops at the missing edge and goes on from
\* the node it stands at (break for return [])
CompleteOpBreaksAtMissing(ns, prefix, k) ==
    LET top == SliceTo(SortEntries(CollectDfs(ns, DeepestOnPath(ns, prefix, Len(prefix)))), k)
    IN  [i \in 1..Len(top) |-> top[i][2]]

\* Trie.complete
CompleteOp(ns, prefix, k) ==
    IF ~HasPath(ns, prefix, 1) THEN <<>>
    ELSE LET top == SliceTo(SortEntries(CollectDfs(ns, prefix)), k)
         IN  [i \in 1..Len(top) |-> top[i][2]]

\* ---------------------------------------------------------------- stats, items
\* height(node) of stats
RECURSIVE Height(_, _)
Height(ns, p) ==
    IF ns[p].children = <<>> THEN 1
    ELSE LET hs == {Height(ns, Append(p, ch)) : ch \in Range(ns[p].children)}
         IN  1 + (CHOOSE h \in hs : \A g \in hs : g <= h)

\* Trie.stats: (words, height, nodes)
StatsOp(t) == <<t.words, Height(t.nodes, <<>>), t.ncount>>

\* dfs(node, path) of items: result in the order the pairs are appended
RECURSIVE ItemsDfs(_, _)
RECURSIVE ItemsKids(_, _, _)
ItemsDfs(ns, p) ==
    (IF ns[p].is_word THEN <<<<p, ns[p].freq>>>> ELSE <<>>) \o ItemsKids(ns, p, 1)

ItemsKids(ns, p, i) ==
    IF i > Len(ns[p].children) THEN <<>>
    ELSE ItemsDfs(ns, Append(p, ns[p].children[i])) \o ItemsKids(ns, p, i + 1)

\* an items whose traversal emits below the root only
ItemsOpBelowRoot(ns) == ItemsKids(ns, <<>>, 1)

\* Trie.items
ItemsOp(ns) == ItemsDfs(ns, <<>>)

\* ---------------------------------------------------------------- the machine
Trie == [nodes |-> nodes, words |-> _words, ncount |-> _nodes]

NoCall == [op |-> "init", word |-> <<>>, freq |-> 0, had |-> FALSE, ret |-> FALSE]

\* the persistence layer not called: no answer
NoDisk == [ok |-> TRUE, pairs |-> <<>>]

\* trie = Trie()
Init ==
    /\ nodes = EmptyTrie.nodes
    /\ _words = EmptyTrie.words
    /\ _nodes = EmptyTrie.ncount
    /\ last = NoCall
    /\ net = 0
    /\ pairs = {}
    /\ parts = <<>>
    /\ disk = NoDisk
    /\ out = <<>>
    /\ running = TRUE

\* trie.insert(word, freq): what it does to the trie
InsertCall(word, freq) ==
    /\ ContainsOp(nodes, word) \/ _words < MaxStored
    /\ LET t == InsertOp(Trie, word, freq)
       IN  /\ nodes' = t.nodes
           /\ _words' = t.words
           /\ _nodes' = t.ncount

\* trie.remove(word): what it does to the trie
RemoveCall(word) ==
    LET t == RemoveOp(Trie, word)
    IN  /\ nodes' = t.nodes
        /\ _words' = t.words
        /\ _nodes' = t.ncount

\* trie.insert(word, freq), the call logged
Insert(word, freq) ==
    /\ InsertCall(word, freq)
    /\ last' = [op |-> "insert", word |-> word, freq |-> freq,
                had |-> ContainsOp(nodes, word), ret |-> FALSE]
    /\ net' = IF ContainsOp(nodes, word) THEN net ELSE net + 1
    /\ UNCHANGED <<pairs, app>>

\* trie.remove(word), the call and the value it returned logged
Remove(word) ==
    /\ RemoveCall(word)
    /\ last' = [op |-> "remove", word |-> word, freq |-> 0,
                had |-> ContainsOp(nodes, word), ret |-> RemoveOp(Trie, word).ret]
    /\ net' = IF RemoveOp(Trie, word).ret THEN net - 1 ELSE net
    /\ UNCHANGED <<pairs, app>>

\* any sequence of insert and remove calls on a fresh trie
Next ==
    \/ \E word \in Words, freq \in Weights : Insert(word, freq)
    \/ \E word \in Words : Remove(word)

Spec == Init /\ [][Next]_vars

\* the same calls with no log kept: the tries the calls reach
NextTrie ==
    \/ \E word \in Words, freq \in Weights :
            InsertCall(word, freq) /\ UNCHANGED <<last, net, pairs, app>>
    \/ \E word \in Words : RemoveCall(word) /\ UNCHANGED <<last, net, pairs, app>>

SpecTrie == Init /\ [][NextTrie]_vars

\* a build: a fresh trie and the pairs of a set inserted one by one, in any order
BuildInsert(word, freq) ==
    /\ <<word, freq>> \notin pairs
    /\ Cardinality(pairs) < MaxStored
    /\ InsertCall(word, freq)
    /\ pairs' = pairs \cup {<<word, freq>>}
    /\ UNCHANGED <<last, net, app>>

NextBuild == \E word \in Words, freq \in Weights : BuildInsert(word, freq)

SpecBuild == Init /\ [][NextBuild]_vars

\* ---------------------------------------------------------------- the queries as calls
\* a contains whose walk makes the node it misses (setdefault for the test)
AfterContainsMakesPath(t, word) ==
    [t EXCEPT !.nodes = InsertWalk([nodes |-> t.nodes, ncount |-> t.ncount], word, 1).nodes]

\* the trie after contains(word): the walk reads children and is_word and
\* assigns to no slot of a node or of the trie
AfterContains(t, word) == t

\* the trie after complete(prefix, k): heap and path are locals of the call
AfterComplete(t, prefix, k) == t

\* the trie after stats()
AfterStats(t) == t

\* the trie after items(): result is a local of the call
AfterItems(t) == t

\* the k of the complete calls: negative, none, and as many as the words stored
QueryKs == {0 - 1, 0, MaxStored}

\* a query call: the trie it leaves and the call logged
QueryCall(t, op, word) ==
    /\ nodes' = t.nodes
    /\ _words' = t.words
    /\ _nodes' = t.ncount
    /\ last' = [op |-> op, word |-> word, freq |-> 0,
                had |-> ContainsOp(nodes, word), ret |-> ContainsOp(nodes, word)]
    /\ UNCHANGED <<net, pairs, app>>

\* trie.contains(word)
Contains(word) == QueryCall(AfterContains(Trie, word), "contains", word)

\* trie.complete(prefix, k)
Complete(prefix, k) == QueryCall(AfterComplete(Trie, prefix, k), "complete", prefix)

\* trie.stats()
Stats == QueryCall(AfterStats(Trie), "stats", <<>>)

\* trie.items()
Items == QueryCall(AfterItems(Trie), "items", <<>>)

\* any sequence of insert and remove calls with queries in between; of an
\* insert and a remove no more is logged than that it was no query
NextQuery ==
    \/ \E word \in Words, freq \in Weights :
            InsertCall(word, freq) /\ last' = NoCall /\ UNCHANGED <<net, pairs, app>>
    \/ \E word \in Words : RemoveCall(word) /\ last' = NoCall /\ UNCHANGED <<net, pairs, app>>
    \/ \E word \in Words : Contains(word)
    \/ \E prefix \in Words, k \in QueryKs : Complete(prefix, k)
    \/ Stats
    \/ Items

SpecQuery == Init /\ [][NextQuery]_vars

\* ---------------------------------------------------------------- the command interpreter
\* A line is the list line.strip().split() gives: the command word, a string,
\* and after it the arguments, each a token.  A token is a word over letters,
\* an integer literal or a literal with a decimal point (as 1.0).  The letters
\* are the Symbols and their capitals, numbered so that capitals come first as
\* in Python: 'A' = -2 < 'B' = -1 < 'a' = 1 < 'b' = 2.
WordTok(text) == [kind |-> "word", text |-> text, val |-> 0]

IntTok(v) == [kind |-> "int", text |-> <<>>, val |-> v]

RealTok(v) == [kind |-> "real", text |-> <<>>, val |-> v]

\* the words typed as arguments: a, A and ab
WordToks == {WordTok(<<1>>), WordTok(<<0 - 2>>), WordTok(<<1, 2>>)}

\* the weights typed: 1, 0.0 and a word
WeightToks == {IntTok(1), RealTok(0), WordTok(<<1>>)}

\* the k typed: -1, 0, 1, 2, 1.0 and a word
KToks == {IntTok(0 - 1), IntTok(0), IntTok(1), IntTok(2), RealTok(1), WordTok(<<1>>)}

\* the lines read: blank ones, each command with the arguments it takes, two
\* spellings of insert, an unknown command, and each command with too few and
\* with too many arguments
Lines ==
    {<<>>}
    \cup {<<c, w, n>> : c \in {"insert", "INSERT"}, w \in WordToks, n \in WeightToks}
    \cup {<<c, w>> : c \in {"remove", "contains"}, w \in WordToks}
    \cup {<<"complete", w, n>> : w \in WordToks, n \in KToks}
    \cup {<<c, WordTok(<<1>>)>> : c \in {"load", "save", "list", "stats", "quit",
                                         "insert", "complete"}}
    \cup {<<c>> : c \in {"stats", "quit", "list", "load", "save", "insert", "remove",
                         "contains", "complete"}}
    \cup {<<c, WordTok(<<1>>), IntTok(1)>> : c \in {"remove", "contains", "load", "save"}}
    \cup {<<c, WordTok(<<1>>), IntTok(1), IntTok(1)>> : c \in {"insert", "complete"}}

\* what load_csv(path) may answer: an exception, or the records of the file,
\* here the word A with weight 1 and the word ab with weight 0
LoadAnswers ==
    {[ok |-> FALSE, pairs |-> <<>>],
     [ok |-> TRUE, pairs |-> <<<<<<0 - 2>>, 1>>, <<<<1, 2>>, 0>>>>]}

\* what save_csv(path, items) may answer: done, or an exception
SaveAnswers == {NoDisk, [ok |-> FALSE, pairs |-> <<>>]}

\* str.lower() of a letter, of a word, and of the command words the lines spell
LowerChar(c) == IF c < 0 THEN c + Cardinality(Symbols) + 1 ELSE c

LowerOf(text) == [i \in 1..Len(text) |-> LowerChar(text[i])]

LowerCmd(c) == IF c = "INSERT" THEN "insert" ELSE c

\* a float() that takes whatever it cannot read for 0.0
ToFloatOrZero(tok) == [ok |-> TRUE, val |-> tok.val]

\* float(parts[2]): the value, or ValueError for a token that is no number
ToFloat(tok) ==
    IF tok.kind \in {"int", "real"} THEN [ok |-> TRUE, val |-> tok.val]
    ELSE [ok |-> FALSE, val |-> 0]

\* int(parts[2]): the value, or ValueError for a token that is no integer literal
ToInt(tok) ==
    IF tok.kind = "int" THEN [ok |-> TRUE, val |-> tok.val] ELSE [ok |-> FALSE, val |-> 0]

\* ",".join(results), the comma written 0
RECURSIVE Join(_)
Join(results) ==
    IF results = <<>> THEN <<>>
    ELSE IF Len(results) = 1 THEN results[1]
    ELSE results[1] \o <<0>> \o Join(Tail(results))

\* a line of output: a marker, the words of a complete, or the three numbers of stats
Echo(kind) == [kind |-> kind, text |-> <<>>, stats |-> <<0, 0, 0>>]

EchoWords(results) == [kind |-> "words", text |-> Join(results), stats |-> <<0, 0, 0>>]

EchoStats(s) == [kind |-> "stats", text |-> <<>>, stats |-> s]

\* for w, s in pairs: trie.insert(w, s), from the i-th pair on
RECURSIVE InsertAll(_, _, _)
InsertAll(t, items, i) ==
    IF i > Len(items) THEN t
    ELSE InsertAll(InsertOp(t, items[i][1], items[i][2]), items, i + 1)

\* what a pass of the loop leaves: the trie, the output, whether the loop goes on
Pass(t, lines) == [trie |-> t, out |-> lines, running |-> TRUE]

\* except Exception: print("ERROR"), the trie as it was when the line began
Raised(t) == Pass(t, <<Echo("ERROR")>>)

\* the body of the loop of main for the line p, d the answer of the
\* persistence layer if the line calls it
Exec(t, p, d) ==
    IF p = <<>> THEN Pass(t, <<>>)
    ELSE LET cmd == LowerCmd(p[1])
         IN  IF cmd = "quit" THEN [trie |-> t, out |-> <<>>, running |-> FALSE]
             ELSE IF cmd = "load" /\ Len(p) = 2
                THEN IF ~d.ok THEN Pass(t, <<Echo("ERROR")>>)
                     ELSE Pass(InsertAll(EmptyTrie, d.pairs, 1), <<>>)
             ELSE IF cmd = "save" /\ Len(p) = 2
                THEN IF ~d.ok THEN Pass(t, <<Echo("ERROR")>>)
                     ELSE Pass(t, <<Echo("OK")>>)
             ELSE IF cmd = "insert" /\ Len(p) = 3
                THEN LET w == LowerOf(p[2].text)
                         freq == ToFloat(p[3])
                     IN  IF ~freq.ok THEN Raised(t)
                         ELSE Pass(InsertOp(t, w, freq.val), <<Echo("OK")>>)
             ELSE IF cmd = "remove" /\ Len(p) = 2
                THEN LET r == RemoveOp(t, LowerOf(p[2].text))
                     IN  Pass([nodes |-> r.nodes, words |-> r.words, ncount |-> r.ncount],
                              <<Echo(IF r.ret THEN "OK" ELSE "MISS")>>)
             ELSE IF cmd = "contains" /\ Len(p) = 2
                THEN Pass(t, <<Echo(IF ContainsOp(t.nodes, LowerOf(p[2].text))
                                    THEN "YES" ELSE "NO")>>)
             ELSE IF cmd = "complete" /\ Len(p) = 3
                THEN LET prefix == LowerOf(p[2].text)
                         k == ToInt(p[3])
                     IN  IF ~k.ok THEN Raised(t)
                         ELSE LET results == CompleteOp(t.nodes, prefix, k.val)
                              IN  IF results # <<>> THEN Pass(t, <<EchoWords(results)>>)
                                  ELSE Pass(t, <<EchoWords(<<>>)>>)
             ELSE IF cmd = "stats" THEN Pass(t, <<EchoStats(StatsOp(t))>>)
             ELSE Pass(t, <<Echo("ERROR")>>)

\* the answers the persistence layer may give in the line p
Answers(p) ==
    IF Len(p) = 2 /\ LowerCmd(p[1]) = "load" THEN LoadAnswers
    ELSE IF Len(p) = 2 /\ LowerCmd(p[1]) = "save" THEN SaveAnswers
    ELSE {NoDisk}

\* for line in sys.stdin: one pass of the loop, for the line read
ReadLine(line) ==
    /\ running
    /\ \E d \in Answers(line) :
        LET r == Exec(Trie, line, d)
        IN  /\ nodes' = r.trie.nodes
            /\ _words' = r.trie.words
            /\ _nodes' = r.trie.ncount
            /\ parts' = line
            /\ disk' = d
            /\ out' = r.out
            /\ running' = r.running
    /\ UNCHANGED <<last, net, pairs>>

NextApp == \E line \in Lines : ReadLine(line)

\* main: a fresh trie and any sequence of lines on standard input
SpecApp == Init /\ [][NextApp]_vars

\* ---------------------------------------------------------------- properties
\* the nodes reachable from the node at path p over the children dicts
RECURSIVE Reachable(_, _)
Reachable(ns, p) ==
    {p} \cup UNION {Reachable(ns, Append(p, ch)) : ch \in Range(ns[p].children)}

\* the words contains() answers true for
Stored(ns) == {w \in Words : ContainsOp(ns, w)}

\* C1: after any sequence of insert and remove calls on a fresh trie, the node
\* count stats() returns is the number of nodes reachable from the root, the
\* root included.
C1_NodeCountIsReachable ==
    StatsOp(Trie)[3] = Cardinality(Reachable(nodes, <<>>))

\* a remove has just pruned the node of its word while other words keep theirs
C1_Witness ==
    /\ last.op = "remove" /\ last.ret
    /\ last.word \notin Reachable(nodes, <<>>)
    /\ _nodes >= 3

\* C2: between operations no reachable node other than the root is both
\* childless and non-terminal: every leaf but the root ends a stored word.
C2_NoDanglingLeaf ==
    \A p \in Reachable(nodes, <<>>) :
        (p # <<>> /\ nodes[p].children = <<>>) => nodes[p].is_word

\* a remove of a two-symbol word has pruned its node and the node above it, and
\* the trie still holds another branch
C2_Witness ==
    /\ last.op = "remove" /\ last.ret /\ Len(last.word) = 2
    /\ SubSeq(last.word, 1, 1) \notin Reachable(nodes, <<>>)
    /\ nodes[<<>>].children # <<>>

\* C3: the word count stats() returns is the number of reachable terminal
\* nodes, which is the number of distinct words stored, which is the inserts
\* that added a word not stored at that moment less the removes that returned
\* true (net moves on no other call).
C3_WordCountIsStored ==
    /\ StatsOp(Trie)[1] = Cardinality({p \in Reachable(nodes, <<>>) : nodes[p].is_word})
    /\ StatsOp(Trie)[1] = Cardinality(Stored(nodes))
    /\ StatsOp(Trie)[1] = net

\* a stored word has just been inserted again: two words are stored and the
\* count has not moved
C3_Witness ==
    /\ last.op = "insert" /\ last.had
    /\ _words = 2 /\ _nodes >= 3

\* C4: remove(w) returns false and leaves the node structure, the terminal
\* flags, the weights, word_count and node_count as they were whenever
\* contains(w) was false beforehand (no path, a path that breaks part-way, or a
\* non-terminal prefix of stored words).
C4_RemoveAbsentChangesNothing ==
    [][(last'.op = "remove" /\ ~ContainsOp(nodes, last'.word)) =>
            /\ last'.ret = FALSE
            /\ nodes' = nodes
            /\ _words' = _words
            /\ _nodes' = _nodes]_vars

\* a remove of a non-terminal proper prefix of a stored word has returned false
C4_Witness ==
    /\ last.op = "remove" /\ ~last.had /\ ~last.ret
    /\ last.word # <<>>
    /\ last.word \in Reachable(nodes, <<>>)
    /\ ~nodes[last.word].is_word

\* C5: contains(w) is true right after insert(w, f), and a word that is stored
\* stays stored over every insert and over every remove of another word, a
\* proper prefix of w and an extension of w among them.
C5_StoredUntilRemoved ==
    [][/\ last'.op = "insert" => ContainsOp(nodes', last'.word)
       /\ \A w \in Words :
            (ContainsOp(nodes, w) /\ ~(last'.op = "remove" /\ last'.word = w))
                => ContainsOp(nodes', w)]_vars

\* an extension of a stored word has just been removed: the stored word's node
\* is left childless, and is still there
C5_Witness ==
    /\ last.op = "remove" /\ last.ret /\ Len(last.word) = 2
    /\ ContainsOp(nodes, SubSeq(last.word, 1, 1))
    /\ nodes[SubSeq(last.word, 1, 1)].children = <<>>

\* C6: remove(w) returns true exactly when contains(w) was true beforehand;
\* after a remove that returned true contains(w) is false, word_count is one
\* less, and remove(w) again returns false, also after removes of other words
\* (a word not stored stays so over every remove).
C6_RemoveReturnsWasStored ==
    [][last'.op = "remove" =>
            /\ last'.ret = ContainsOp(nodes, last'.word)
            /\ last'.ret =>
                /\ ~ContainsOp(nodes', last'.word)
                /\ _words' = _words - 1
                /\ RemoveOp(Trie', last'.word).ret = FALSE
            /\ \A w \in Words : ~ContainsOp(nodes, w) => ~ContainsOp(nodes', w)]_vars

\* a remove has returned true, its word is gone and another word is stored
C6_Witness ==
    /\ last.op = "remove" /\ last.had /\ last.ret
    /\ ~ContainsOp(nodes, last.word)
    /\ _words >= 1

\* word a before word b in lexicographic order over the symbols
RECURSIVE LexBefore(_, _)
LexBefore(a, b) ==
    IF b = <<>> THEN FALSE
    ELSE IF a = <<>> THEN TRUE
    ELSE IF Head(a) # Head(b) THEN Head(a) < Head(b)
    ELSE LexBefore(Tail(a), Tail(b))

\* v ranks before w: the greater weight first, and of equal weights the word
\* that is lexicographically smaller
RanksBefore(wt, v, w) == wt[v] > wt[w] \/ (wt[v] = wt[w] /\ LexBefore(v, w))

\* res is the first min(k, r) of the r words of M, in rank order: as long as
\* that, of words of M, each before the next, and the last before all left out
TopK(res, M, wt, k) ==
    /\ Len(res) = Min(k, Cardinality(M))
    /\ \A i \in 1..Len(res) : res[i] \in M
    /\ \A i \in 1..(Len(res) - 1) : RanksBefore(wt, res[i], res[i + 1])
    /\ \A v \in M \ Range(res) : Len(res) > 0 => RanksBefore(wt, res[Len(res)], v)

\* the weight of each word of S in the nodes ns
WeightIn(ns, S) == [w \in S |-> ns[w].freq]

\* C7: for every prefix p and every k >= 0, complete(p, k) is exactly the first
\* min(k, r) of the r stored words starting with p, ordered by weight
\* descending and, among equal weights, by word ascending: never more than k
\* words, no word that is not stored or does not start with p, no higher-ranked
\* word skipped.
C7_CompleteIsTopK ==
    \A S \in {Stored(nodes)} : \A wt \in {WeightIn(nodes, S)} :
        \A p \in Words : \A M \in {{w \in S : IsPrefix(p, w)}} :
            \A k \in Ks : TopK(CompleteOp(nodes, p, k), M, wt, k)

\* a (weight 0), aa and ab (weight 1 each) are stored, and complete("a", 2)
\* has cut the list to the two that tie, aa before ab
C7_Witness ==
    /\ Stored(nodes) = {<<1>>, <<1, 1>>, <<1, 2>>}
    /\ nodes[<<1>>].freq = 0 /\ nodes[<<1, 1>>].freq = 1 /\ nodes[<<1, 2>>].freq = 1
    /\ nodes[<<1>>].children = <<2, 1>>
    /\ CompleteOp(nodes, <<1>>, 2) = <<<<1, 1>>, <<1, 2>>>>

\* the fresh trie t with the pairs of the set P inserted, in one fixed order
RECURSIVE BuildSet(_, _)
BuildSet(t, P) ==
    IF P = {} THEN t
    ELSE LET x == CHOOSE y \in P : TRUE
         IN  BuildSet(InsertOp(t, x[1], x[2]), P \ {x})

\* the trie t with the pairs of the sequence items inserted from the i-th on
RECURSIVE BuildSeq(_, _, _)
BuildSeq(t, items, i) ==
    IF i > Len(items) THEN t
    ELSE BuildSeq(InsertOp(t, items[i][1], items[i][2]), items, i + 1)

\* two tries answer alike: contains for every word, complete for every prefix
\* and k, and stats
SameAnswers(t, u) ==
    /\ \A w \in Words : ContainsOp(t.nodes, w) = ContainsOp(u.nodes, w)
    /\ \A p \in Words, k \in Ks : CompleteOp(t.nodes, p, k) = CompleteOp(u.nodes, p, k)
    /\ StatsOp(t) = StatsOp(u)

\* no word comes with two weights
DistinctWords(P) == \A x, y \in P : x[1] = y[1] => x = y

\* C8 as amended: for any set of (word, weight) pairs with pairwise distinct
\* words, the tries built by inserting the pairs in any two orders give the
\* same complete(p, k) for every p and k, the same contains and the same
\* stats.  Every order of every set is a run of the build, and each is compared
\* with the one fixed order of BuildSet.
C8_OrderIndependent ==
    DistinctWords(pairs) => SameAnswers(Trie, BuildSet(EmptyTrie, pairs))

\* C8 as stated: the same for any set of distinct (word, weight) pairs, the
\* sets in which a word comes with two weights among them.
C8_AnySetOfPairs ==
    SameAnswers(Trie, BuildSet(EmptyTrie, pairs))

\* three words inserted in an order that leaves the children dicts in another
\* order than the fixed order does
C8_Witness ==
    /\ DistinctWords(pairs) /\ Cardinality(pairs) = 3
    /\ nodes # BuildSet(EmptyTrie, pairs).nodes
    /\ Len(CompleteOp(nodes, <<>>, 3)) = 3

\* C9: items() lists every stored word exactly once with its current weight,
\* and a fresh trie with each pair of items() inserted gives the same
\* contains(w) for every w, the same complete(p, k) for every p and k, and the
\* same stats() as the trie.
C9_ItemsRoundTrip ==
    \A items \in {ItemsOp(nodes)} :
        /\ Len(items) = Cardinality(Stored(nodes))
        /\ Range(items) = {<<w, nodes[w].freq>> : w \in Stored(nodes)}
        /\ SameAnswers(Trie, BuildSeq(EmptyTrie, items, 1))

\* the empty word and two more are stored, the root's children not in symbol
\* order, and items() lists the three in the order of the traversal
C9_Witness ==
    /\ ContainsOp(nodes, <<>>)
    /\ nodes[<<>>].children = <<2, 1>>
    /\ Len(ItemsOp(nodes)) = 3
    /\ ItemsOp(nodes)[2][1] = <<2>>

\* C10: insert(w, f) of a stored word w sets its weight to f and changes nothing
\* else (word_count, node_count, the node structure, every other word's flag and
\* weight); afterwards complete, asked under each prefix of w for every word
\* there is, ranks w by f and the other words by the weights they had.
C10_ReinsertOverwritesWeight ==
    [][(last'.op = "insert" /\ ContainsOp(nodes, last'.word)) =>
            /\ nodes' = [nodes EXCEPT ![last'.word].freq = last'.freq]
            /\ _words' = _words
            /\ _nodes' = _nodes
            /\ \A S \in {Stored(nodes)} :
               \A wt \in {[v \in S |-> IF v = last'.word THEN last'.freq ELSE nodes[v].freq]} :
               \A p \in {q \in Words : IsPrefix(q, last'.word)} :
               \A M \in {{v \in S : IsPrefix(p, v)}} :
               \A k \in {MaxStored + 1} :
               \A res \in {CompleteOp(nodes', p, k)} : TopK(res, M, wt, k)]_vars

\* a stored word has just been inserted again with weight 1 and now ranks
\* first, ahead of a lexicographically smaller word of weight 0
C10_Witness ==
    /\ last.op = "insert" /\ last.had /\ last.freq = 1
    /\ CompleteOp(nodes, <<>>, 1) = <<last.word>>
    /\ \E v \in Stored(nodes) : LexBefore(v, last.word) /\ nodes[v].freq = 0

\* the trie t with the words of S removed one by one: whichever word goes
\* next, the remove returns true, and once none is left stats() is (0, 1, 1)
RECURSIVE AllOrdersReachEmpty(_, _)
AllOrdersReachEmpty(t, S) ==
    IF S = {} THEN StatsOp(t) = <<0, 1, 1>>
    ELSE \A w \in S :
            \A r \in {RemoveOp(t, w)} :
                r.ret /\ AllOrdersReachEmpty([nodes |-> r.nodes, words |-> r.words,
                                              ncount |-> r.ncount], S \ {w})

\* C11: whatever words a run of inserts and removes has left stored in the
\* trie, removing them all, in any order, leaves stats() = (0, 1, 1): the
\* childless non-terminal root alone; and an insert of a word that is not
\* stored followed at once by its remove gives back the node count, the word
\* count and the height stats() had before.
C11_InsertThenRemoveRestores ==
    /\ AllOrdersReachEmpty(Trie, Stored(nodes))
    /\ \A w \in Words \ Stored(nodes), f \in Weights :
            \A t \in {InsertOp(Trie, w, f)} : \A r \in {RemoveOp(t, w)} :
                /\ r.ret
                /\ StatsOp([nodes |-> r.nodes, words |-> r.words, ncount |-> r.ncount])
                        = StatsOp(Trie)

\* words were inserted and every one of them removed again, a two-symbol word
\* last: the trie is back at the root alone
C11_Witness ==
    /\ last.op = "remove" /\ last.ret /\ Len(last.word) = 2
    /\ net = 0
    /\ StatsOp(Trie) = <<0, 1, 1>>

\* every integer k a caller may hand to complete, within the bound
AnyKs == (0 - (MaxStored + 1))..(MaxStored + 1)

\* C12: complete(p, k) returns the empty sequence whenever no path for p
\* exists (any non-empty p on the empty trie among them), whenever the path
\* exists and no stored word starts with p, and whenever k = 0; the model's
\* complete has a value for every trie, prefix and k, as the code raises for
\* none.
C12_CompleteEmpty ==
    \A p \in Words : \A k \in AnyKs :
        (\/ ~HasPath(nodes, p, 1)
         \/ {w \in Stored(nodes) : IsPrefix(p, w)} = {}
         \/ k = 0)
            => CompleteOp(nodes, p, k) = <<>>

\* a and ab are stored: complete finds no path for b, cuts the words under a
\* to none for k = 0, and returns them for k = 2
C12_Witness ==
    /\ Stored(nodes) = {<<1>>, <<1, 2>>}
    /\ ~HasPath(nodes, <<2>>, 1) /\ CompleteOp(nodes, <<2>>, 2) = <<>>
    /\ HasPath(nodes, <<1>>, 1) /\ CompleteOp(nodes, <<1>>, 0) = <<>>
    /\ Len(CompleteOp(nodes, <<1>>, 2)) = 2

\* the length of the longest word of S, 0 when S holds none
LongestLen(S) == IF S = {} THEN 0 ELSE CHOOSE n \in {Len(w) : w \in S} : \A v \in S : Len(v) <= n

\* C13: after any sequence of inserts and removes the height stats() returns
\* is 1 + the length of the longest stored word, and 1 when no word or only
\* the empty word is stored; a remove of the one longest word lowers the
\* height to 1 + the length of the longest word left (the empty word, the
\* longest only when it is the one word stored, has no height to give up).
C13_HeightIsLongestWord ==
    /\ [](StatsOp(Trie)[2] = 1 + LongestLen(Stored(nodes)))
    /\ [][(/\ last'.op = "remove" /\ last'.ret
           /\ \A v \in Stored(nodes) \ {last'.word} : Len(v) < Len(last'.word))
            => /\ StatsOp(Trie')[2] = 1 + LongestLen(Stored(nodes) \ {last'.word})
               /\ last'.word # <<>> => StatsOp(Trie')[2] < StatsOp(Trie)[2]]_vars

\* the one two-symbol word has just been removed and a one-symbol word on
\* another branch is left: the height is down from 3 to 2
C13_Witness ==
    /\ last.op = "remove" /\ last.ret /\ Len(last.word) = 2
    /\ \E v \in Stored(nodes) : Len(v) = 1 /\ ~IsPrefix(v, last.word)
    /\ \A v \in Stored(nodes) : Len(v) <= 1
    /\ StatsOp(Trie)[2] = 2

PathOf(w) == {SubSeq(w, 1, i) : i \in 0..Len(w)}

\* the nodes a remove of the stored word w is to delete: going up from the end
\* of w, each node that is not the root, ends no other word and has no child
\* off the path, as far as every node below it on the path is such a node too
PrunedBy(ns, w) ==
    {q \in PathOf(w) \ {<<>>} :
        \A r \in PathOf(w) :
            Len(r) >= Len(q) =>
                /\ r # w => ~ns[r].is_word
                /\ Range(ns[r].children) \subseteq (IF r = w THEN {} ELSE {w[Len(r) + 1]})}

\* C18: when remove(w) returns true, contains(v) and the weight of v are as
\* before for every other word v (proper prefixes of w, extensions of w and
\* words that share a prefix with w among them); the nodes deleted are exactly
\* the non-terminal childless nodes on w's path from its end upward, up to the
\* first node that is terminal, still has children, or is the root; every node
\* left keeps its flag, weight and children, the node of w its flag and weight
\* excepted and the deleted children excepted; node_count goes down by the
\* number of nodes deleted.
C18_RemoveFrame ==
    [][(last'.op = "remove" /\ last'.ret) =>
            \A w \in {last'.word} : \A gone \in {PrunedBy(nodes, w)} :
                /\ \A v \in Words \ {w} :
                        /\ ContainsOp(nodes', v) = ContainsOp(nodes, v)
                        /\ ContainsOp(nodes, v) => nodes'[v].freq = nodes[v].freq
                /\ DOMAIN nodes' = DOMAIN nodes \ gone
                /\ Reachable(nodes', <<>>) = Reachable(nodes, <<>>) \ gone
                /\ \A q \in DOMAIN nodes' :
                        /\ q # w => /\ nodes'[q].is_word = nodes[q].is_word
                                    /\ nodes'[q].freq = nodes[q].freq
                        /\ nodes'[q].children =
                                SelectSeq(nodes[q].children, LAMBDA ch : Append(q, ch) \notin gone)
                /\ w \in DOMAIN nodes' => ~nodes'[w].is_word /\ nodes'[w].freq = 0
                /\ _nodes' = _nodes - Cardinality(gone)]_vars

\* a two-symbol word has just been removed from under a stored one-symbol
\* word that has no other child: the node of the longer word is gone and the
\* pruning has stopped at the terminal node above it
C18_Witness ==
    /\ last.op = "remove" /\ last.ret /\ Len(last.word) = 2
    /\ last.word \notin DOMAIN nodes
    /\ ContainsOp(nodes, SubSeq(last.word, 1, 1))
    /\ nodes[SubSeq(last.word, 1, 1)].children = <<>>
    /\ _words >= 2

QueryOps == {"contains", "complete", "stats", "items"}

WrongCount(p) ==
    /\ p # <<>>
    /\ \/ LowerCmd(p[1]) \in {"load", "save", "remove", "contains"} /\ Len(p) # 2
       \/ LowerCmd(p[1]) \in {"insert", "complete"} /\ Len(p) # 3
       \/ LowerCmd(p[1]) = "stats" /\ Len(p) # 1

\* the line p is malformed: an unknown command, a wrong number of arguments,
\* an insert whose weight is no number, a complete whose k is no integer
Malformed(p) ==
    /\ p # <<>>
    /\ \/ LowerCmd(p[1]) \notin {"load", "save", "insert", "remove", "contains",
                                 "complete", "stats", "quit"}
       \/ WrongCount(p)
       \/ LowerCmd(p[1]) = "insert" /\ Len(p) = 3 /\ p[3].kind = "word"
       \/ LowerCmd(p[1]) = "complete" /\ Len(p) = 3 /\ p[3].kind # "int"

C16_WrongCountPrintsError ==
    [][WrongCount(parts') => out' = <<Echo("ERROR")>>]_vars

\* the line p with every letter of it lower-cased
FoldCase(p) ==
    [i \in 1..Len(p) |-> IF i = 1 THEN LowerCmd(p[1]) ELSE [p[i] EXCEPT !.text = LowerOf(@)]]

\* the pairs of items with each word lower-cased
FoldWords(items) == [i \in 1..Len(items) |-> <<LowerOf(items[i][1]), items[i][2]>>]

\* the line just read is an insert, remove, contains or complete line: every
\* line that differs from it in letter case only would have left the same trie
\* and printed the same
LinesFoldCase ==
    (parts' # <<>> /\ LowerCmd(parts'[1]) \in {"insert", "remove", "contains", "complete"}) =>
        \A q \in Lines :
            FoldCase(q) = FoldCase(parts') =>
                \A r \in {Exec(Trie, q, NoDisk)} : r.trie = Trie' /\ r.out = out'

\* the line just read is a load that got its records: the trie is the one the
\* inserts of the lower-cased words build
LoadFoldsCase ==
    (Len(parts') = 2 /\ LowerCmd(parts'[1]) = "load" /\ disk'.ok) =>
        Trie' = InsertAll(EmptyTrie, FoldWords(disk'.pairs), 1)

\* the line just read is blank: nothing printed, the trie as it was
BlankIsSkipped ==
    parts' = <<>> => (out' = <<>> /\ nodes' = nodes /\ _words' = _words /\ _nodes' = _nodes)

\* C17: every word or prefix the interpreter hands to a core operation is
\* lower-cased first, in insert, remove, contains and complete and in the
\* inserts of load, so that lines that differ in letter case only have the
\* same effect and output; a blank line prints nothing and changes nothing.
C17_CaseIsFolded ==
    [][LinesFoldCase /\ LoadFoldsCase /\ BlankIsSkipped]_vars

\* C20: complete(p, k) returns at most k words for every integer k the
\* interpreter can hand to the core, the negative ones int() accepts in a
\* complete line among them: no more than max(k, 0) words.
C20_AtMostKForAnyInteger ==
    [][(Len(parts') = 3 /\ LowerCmd(parts'[1]) = "complete" /\ parts'[3].kind = "int") =>
            \A k \in {ToInt(parts'[3]).val} :
                Len(CompleteOp(nodes, LowerOf(parts'[2].text), k)) <= Max(k, 0)]_vars

====
